---------------------------- MODULE Spec2Model ----------------------------
(***************************************************************************)
(* Stage decomposition (SmiCoreData) and per-node sparse storage           *)
(* (SmiNodeData) of Smi/src/SmiScnData.cpp.                                *)
(*                                                                         *)
(* C arrays are functions over 0..n-1, CoinPackedVector is a sequence of   *)
(* [ind, el] records in storage order, a row-ordered CoinPackedMatrix is   *)
(* an array of such sequences, doubles are integers (the code only copies  *)
(* and overwrites them).                                                   *)
(*                                                                         *)
(* The scenario tree iterator (BinTreeStruct) of                           *)
(* Smi/flopcpp_examples/investment/investment.cpp and the loop of main     *)
(* that drives it.                                                         *)
(***************************************************************************)
EXTENDS Integers, Sequences, FiniteSets, TLC

VARIABLES pc,      \* "start" | "built" | "crashed" | "corrupt"
          args,    \* the arguments of SmiCoreData::gutsOfConstructor
          core,    \* the SmiCoreData object
          nargs,   \* the arguments of the SmiNodeData constructor that built node
          node,    \* the SmiNodeData object the node operations are called on
          dRowMap, \* node's dense row cache: row -> [ptr, dv]
          dest,    \* what the last call handed to its caller
          prev,    \* what the call before handed back, when both calls were
                   \* getDenseRow of the same row
          scTree,  \* the BinTreeStruct object of the investment example
          frame    \* the position and the locals of the example's main

vars == <<pc, args, core, nargs, node, dRowMap, dest, prev, scTree, frame>>

----------------------------------------------------------------------------
(* Bounds of the model *)

MaxStages == 2
MaxCols   == 3
MaxRows   == 2
\* the scenario tree has 1..MaxT stages
MaxT == 5
\* calls of getNextScenario made after the first one that returned NULL
MaxLaterCalls == 2

----------------------------------------------------------------------------
(* Helpers for arrays and packed vectors *)

Range0(n) == 0..(n - 1)

Entry(i, v) == [ind |-> i, el |-> v]

\* The entries of packed vector v whose index is i, in storage order
RECURSIVE SelectInd(_, _)
SelectInd(v, i) ==
    IF v = <<>> THEN <<>>
    ELSE IF Head(v).ind = i THEN <<Head(v)>> \o SelectInd(Tail(v), i)
         ELSE SelectInd(Tail(v), i)

Indices(v) == {v[j].ind : j \in 1..Len(v)}

\* f[0] + ... + f[k]
RECURSIVE PartialSum(_, _)
PartialSum(f, k) == IF k = 0 THEN f[0] ELSE f[k] + PartialSum(f, k - 1)

\* CoinPackedVector::denseVector(size): zero array, then dv[ind[j]] = el[j]
\* for j ascending (a later entry of the same index overwrites)
DenseVector(v, size) ==
    [k \in Range0(size) |->
        LET hits == SelectInd(v, k)
        IN  IF hits = <<>> THEN 0 ELSE hits[Len(hits)].el]

\* CoinPackedVector::sortIncrIndex
RECURSIVE SortIncrIndex(_)
SortIncrIndex(v) ==
    IF v = <<>> THEN <<>>
    ELSE LET m == CHOOSE j \in 1..Len(v) :
                     \A k \in 1..Len(v) :
                        v[j].ind < v[k].ind \/ (v[j].ind = v[k].ind /\ j <= k)
             rest == [k \in 1..(Len(v) - 1) |-> IF k < m THEN v[k] ELSE v[k + 1]]
         IN  <<v[m]>> \o SortIncrIndex(rest)

----------------------------------------------------------------------------
(* The deterministic problem handed to the constructor *)

\* Matrix coefficient of external row r, external column c: even in the
\* core problem, odd (off by one) in a scenario's matrix
CoreEl(r, c, ncol) == 20 * r + 2 * (ncol - c)

\* One row of a row-ordered matrix: no entry, one entry on the anti-diagonal
\* or on the diagonal, or every column in descending order
MatrixRow(shape, r, ncol, off) ==
    CASE shape = "empty" -> <<>>
      [] shape = "anti"  -> <<Entry((ncol - 1 - r) % ncol,
                                    CoreEl(r, (ncol - 1 - r) % ncol, ncol) + off)>>
      [] shape = "diag"  -> <<Entry(r % ncol, CoreEl(r, r % ncol, ncol) + off)>>
      [] shape = "rev"   -> [j \in 1..ncol |->
                                Entry(ncol - j, CoreEl(r, ncol - j, ncol) + off)]

Shapes == {"empty", "anti", "rev"}

\* CoinPackedVector(n, dense array): every index 0..n-1, in order
FullVector(n, base) == [j \in 1..n |-> Entry(j - 1, base + j - 1)]

\* An argument that may be a null pointer
Null == [null |-> TRUE, v |-> <<>>]
Ptr(v) == [null |-> FALSE, v |-> v]

Max(a, b) == IF a >= b THEN a ELSE b

\* Stage labels in [0,nstag): the columns take any labelling l of
\* 0..max(nc,nr)-1 from its front, the rows take it from its back
ValidLabels(nc, nr, ns) ==
    LET m == Max(nc, nr)
    IN  {<<[c \in Range0(nc) |-> l[c]], [r \in Range0(nr) |-> l[m - 1 - r]]>> :
            l \in [Range0(m) -> Range0(ns)]}

\* The same with the last column label or the last row label replaced by
\* -1, nstag or nstag+1
BadLabels(nc, nr, ns) ==
    LET BadLab == {-1, ns, ns + 1}
    IN  {<<[l[1] EXCEPT ![nc - 1] = b], l[2]>> :
            l \in ValidLabels(nc, nr, ns), b \in BadLab}
        \cup {<<l[1], [l[2] EXCEPT ![nr - 1] = b]>> :
            l \in ValidLabels(nc, nr, ns), b \in BadLab}

\* The integer columns handed to the constructor, as the array
\* integerIndices: every column in ascending order, the columns above 0 in
\* descending order, or none
IntegerIndices(shape, nc) ==
    CASE shape = "anti" -> [i \in Range0(nc) |-> i]
      [] shape = "rev"  -> [i \in Range0(nc - 1) |-> nc - 1 - i]
      [] OTHER          -> [i \in {} |-> 0]

GutsArgs(ns, nc, nr, cs, rs, shape) ==
    [nstag  |-> ns, ncol |-> nc, nrow |-> nr, cstag |-> cs, rstag |-> rs,
     integerIndices |-> IntegerIndices(shape, nc),
     integerLength  |-> Cardinality(DOMAIN IntegerIndices(shape, nc)),
     matrix |-> Ptr([r \in Range0(nr) |-> MatrixRow(shape, r, nc, 0)]),
     dclo   |-> Ptr(FullVector(nc, 100)),
     dcup   |-> Ptr(FullVector(nc, 200)),
     dobj   |-> Ptr(FullVector(nc, 300)),
     drlo   |-> Ptr(FullVector(nr, 400)),
     drup   |-> Ptr(FullVector(nr, 500))]

LabelsInRange(a) ==
    /\ \A c \in Range0(a.ncol) : a.cstag[c] \in Range0(a.nstag)
    /\ \A r \in Range0(a.nrow) : a.rstag[r] \in Range0(a.nstag)

\* The labels for which every array access of the constructor is inside
\* its array: the count and start arrays have nstag+1 slots,
\* nColInPrevStages and intColsStagewise, indexed by the stage of an
\* integer column, have nstag
LabelsInBounds(a) ==
    /\ \A c \in Range0(a.ncol) : a.cstag[c] \in 0..a.nstag
    /\ \A r \in Range0(a.nrow) : a.rstag[r] \in 0..a.nstag
    /\ \A i \in Range0(a.integerLength) :
          a.cstag[a.integerIndices[i]] \in Range0(a.nstag)

----------------------------------------------------------------------------
(* The data handed to the constructor of a scenario node *)

\* A packed vector over the indices of sel below n, in descending order
RECURSIVE SparseVector(_, _, _)
SparseVector(sel, n, base) ==
    IF n = 0 THEN <<>>
    ELSE (IF (n - 1) \in sel THEN <<Entry(n - 1, base + n - 1)>> ELSE <<>>)
         \o SparseVector(sel, n - 1, base)

\* The index sets of the override vectors: none, every index, every index
\* but one
SelFamily(m) == {{}} \cup {Range0(m)} \cup {Range0(m) \ {i} : i \in Range0(m)}

\* "full": a matrix with every column and the five vectors;
\* "part": a diagonal matrix, no column lower and no row lower vector;
\* "none": null pointers only
Variants == {"full", "part", "none"}

NodeArgs(stg, sel, variant, nc, nr) ==
    LET Vec(n, base, absent) ==
            IF variant \in absent THEN Null ELSE Ptr(SparseVector(sel, n, base))
        shape == IF variant = "full" THEN "rev" ELSE "diag"
    IN  [stg    |-> stg,
         matrix |-> IF variant = "none" THEN Null
                    ELSE Ptr([r \in Range0(nr) |-> MatrixRow(shape, r, nc, 1)]),
         dclo   |-> Vec(nc, 1100, {"part", "none"}),
         dcup   |-> Vec(nc, 1200, {"none"}),
         dobj   |-> Vec(nc, 1300, {"none"}),
         drlo   |-> Vec(nr, 1400, {"part", "none"}),
         drup   |-> Vec(nr, 1500, {"none"})]

----------------------------------------------------------------------------
(* SmiCoreData::gutsOfConstructor, the index maps *)

\* "count rows in each stage": n[stag[i]]++ over zeroed counts
CountInStage(stag, n, nstag) ==
    [t \in 0..nstag |-> Cardinality({i \in Range0(n) : stag[i] = t})]

\* Mutant: the prefix sum adds the count of the stage itself
SetStagePtrsShifted(cnt, nstag) ==
    LET RECURSIVE P(_)
        P(t) == IF t = 0 THEN 0 ELSE P(t - 1) + cnt[t]
    IN  [t \in 0..nstag |-> P(t)]

\* "set stage pointers": ptr[0] = 0; ptr[i+1] = ptr[i] + n[i]
SetStagePtrs(cnt, nstag) ==
    LET RECURSIVE P(_)
        P(t) == IF t = 0 THEN 0 ELSE P(t - 1) + cnt[t - 1]
    IN  [t \in 0..nstag |-> P(t)]

Uninit == -1

\* Mutant: the stage cursor is not advanced after a placement
RECURSIVE PlaceLoopNoAdvance(_, _, _, _)
PlaceLoopNoAdvance(i, n, stag, st) ==
    IF i = n THEN st
    ELSE LET p == st.ptr[stag[i]]
         IN  PlaceLoopNoAdvance(i + 1, n, stag,
                 [ex2in |-> [st.ex2in EXCEPT ![i] = p],
                  in2ex |-> [st.in2ex EXCEPT ![p] = i],
                  ptr   |-> st.ptr])

\* Mutant: the external indices are placed from the last to the first
RECURSIVE PlaceLoopBackward(_, _, _, _)
PlaceLoopBackward(i, n, stag, st) ==
    IF i = n THEN st
    ELSE LET e == n - 1 - i
             p == st.ptr[stag[e]]
         IN  PlaceLoopBackward(i + 1, n, stag,
                 [ex2in |-> [st.ex2in EXCEPT ![e] = p],
                  in2ex |-> [st.in2ex EXCEPT ![p] = e],
                  ptr   |-> [st.ptr EXCEPT ![stag[e]] = p + 1]])

\* "place index into next open position in its stage"
RECURSIVE PlaceLoop(_, _, _, _)
PlaceLoop(i, n, stag, st) ==
    IF i = n THEN st
    ELSE LET p == st.ptr[stag[i]]
         IN  PlaceLoop(i + 1, n, stag,
                 [ex2in |-> [st.ex2in EXCEPT ![i] = p],
                  in2ex |-> [st.in2ex EXCEPT ![p] = i],
                  ptr   |-> [st.ptr EXCEPT ![stag[i]] = p + 1]])

\* Mutant: the cursors are left where the placement advanced them
ResetStagePtrsSkipped(advanced, cnt, nstag) == advanced

\* "reset stage pointers"
ResetStagePtrs(advanced, cnt, nstag) == SetStagePtrs(cnt, nstag)

\* Counting, prefix sums, placement and reset for the rows or the columns
StageMaps(stag, n, nstag) ==
    LET cnt    == CountInStage(stag, n, nstag)
        ptr0   == SetStagePtrs(cnt, nstag)
        placed == PlaceLoop(0, n, stag,
                      [ex2in |-> [i \in Range0(n) |-> Uninit],
                       in2ex |-> [i \in Range0(n) |-> Uninit],
                       ptr   |-> ptr0])
    IN  [cnt   |-> cnt,
         ex2in |-> placed.ex2in,
         in2ex |-> placed.in2ex,
         ptr   |-> ResetStagePtrs(placed.ptr, cnt, nstag)]


----------------------------------------------------------------------------
(* SmiNodeData::SmiNodeData, the constructor from LP data *)

RECURSIVE Flatten(_)
Flatten(rows) == IF rows = <<>> THEN <<>> ELSE Head(rows) \o Flatten(Tail(rows))

\* CoinPackedMatrix::getNumElements
NumElements(m) == Len(Flatten([i \in 1..Cardinality(DOMAIN m) |-> m[i - 1]]))

\* Mutant: the stage's rows are read at their internal position
MatrixRowsUntranslated(c, matrix, rowbeg, nrow) ==
    [i \in 1..nrow |->
        LET src == matrix[rowbeg + i - 1]
        IN  [j \in 1..Len(src) |-> Entry(c.colEx2In_[src[j].ind], src[j].el)]]

\* "copy the matrix row to destination" for the rows of the node's stage in
\* internal order, then "convert indices to Internal"
MatrixRows(c, matrix, rowbeg, nrow) ==
    [i \in 1..nrow |->
        LET isrc == c.rowIn2Ex_[rowbeg + i - 1]
            src  == matrix[isrc]
        IN  [j \in 1..Len(src) |-> Entry(c.colEx2In_[src[j].ind], src[j].el)]]

\* Mutant: the copied entries keep their external index
RECURSIVE CopyStageEntriesExternal(_, _, _, _)
CopyStageEntriesExternal(v, stag, ex2in, stg) ==
    IF v = <<>> THEN <<>>
    ELSE LET rest == CopyStageEntriesExternal(Tail(v), stag, ex2in, stg)
         IN  IF stag[Head(v).ind] = stg
             THEN <<Entry(Head(v).ind, Head(v).el)>> \o rest
             ELSE rest

\* Mutant: the copied entries are stored in the reverse of the input order
RECURSIVE CopyStageEntriesReversed(_, _, _, _)
CopyStageEntriesReversed(v, stag, ex2in, stg) ==
    IF v = <<>> THEN <<>>
    ELSE LET rest == CopyStageEntriesReversed(Tail(v), stag, ex2in, stg)
         IN  IF stag[Head(v).ind] = stg
             THEN rest \o <<Entry(ex2in[Head(v).ind], Head(v).el)>>
             ELSE rest

\* One bound/objective block: the entries whose owner has stage stg, in
\* input order, under the owner's internal index
RECURSIVE CopyStageEntries(_, _, _, _)
CopyStageEntries(v, stag, ex2in, stg) ==
    IF v = <<>> THEN <<>>
    ELSE LET rest == CopyStageEntries(Tail(v), stag, ex2in, stg)
         IN  IF stag[Head(v).ind] = stg
             THEN <<Entry(ex2in[Head(v).ind], Head(v).el)>> \o rest
             ELSE rest

SmiNodeData(stg, c, matrix, dclo, dcup, dobj, drlo, drup) ==
    LET nrow    == c.nRowInStage_[stg]
        ncol    == c.nColInStage_[stg]
        rowbeg  == c.stageRowPtr_[stg]
        colbeg  == c.stageColPtr_[stg]
        nels    == (IF matrix.null THEN 0 ELSE NumElements(matrix.v))
                   + Len(dclo.v) + Len(dcup.v) + Len(dobj.v)
                   + Len(drlo.v) + Len(drup.v)
        hasmat  == ~matrix.null /\ NumElements(matrix.v) > 0
        rows    == IF hasmat THEN MatrixRows(c, matrix.v, rowbeg, nrow) ELSE <<>>
        mat     == Flatten(rows)
        i0      == IF hasmat THEN nrow ELSE 0
        Col(p)  == IF p.null THEN <<>>
                   ELSE CopyStageEntries(p.v, c.colStage_, c.colEx2In_, stg)
        Row(p)  == IF p.null THEN <<>>
                   ELSE CopyStageEntries(p.v, c.rowStage_, c.rowEx2In_, stg)
        segs    == <<Col(dclo), Col(dcup), Col(dobj), Row(drlo), Row(drup)>>
        buf     == mat \o Flatten(segs)
        nstrt   == (nrow + 1) + 5
    IN  [stg_ |-> stg, isCoreNode_ |-> FALSE, numarrays_ |-> 5,
         nrow_ |-> nrow, ncol_ |-> ncol, rowbeg_ |-> rowbeg, colbeg_ |-> colbeg,
         nels_ |-> nels, nstrt_ |-> nstrt, has_matrix_ |-> hasmat,
         dels_ |-> [j \in 1..Len(buf) |-> buf[j].el],
         inds_ |-> [j \in 1..Len(buf) |-> buf[j].ind],
         strt_ |-> [k \in Range0(nstrt) |->
                      IF hasmat /\ k <= nrow
                      THEN Len(Flatten(SubSeq(rows, 1, k)))
                      ELSE IF k > i0 /\ k <= i0 + 5
                           THEN Len(mat) + Len(Flatten(SubSeq(segs, 1, k - i0)))
                           ELSE 0],
         mat_strt_ |-> 0, clo_strt_ |-> i0, cup_strt_ |-> i0 + 1,
         obj_strt_ |-> i0 + 2, rlo_strt_ |-> i0 + 3, rup_strt_ |-> i0 + 4,
         hasQdata_ |-> FALSE, nqdata_ |-> [state |-> "null"]]

\* SmiNodeData::setCoreNode
SetCoreNode(n) == [n EXCEPT !.isCoreNode_ = TRUE]

\* Block i of the shared buffer, strt_[i] .. strt_[i+1]-1, as a packed vector
Block(n, i) ==
    [j \in 1..(n.strt_[i + 1] - n.strt_[i]) |->
        Entry(n.inds_[n.strt_[i] + j], n.dels_[n.strt_[i] + j])]

\* getRowLength / getRowIndices / getRowElements of internal row irow
HasRow(n, irow) == n.has_matrix_ /\ irow - n.rowbeg_ \in Range0(n.nrow_)
RowOf(n, irow) ==
    IF n.has_matrix_ THEN Block(n, n.mat_strt_ + irow - n.rowbeg_) ELSE <<>>

ColLowerOf(n)  == Block(n, n.clo_strt_)
ColUpperOf(n)  == Block(n, n.cup_strt_)
ObjectiveOf(n) == Block(n, n.obj_strt_)
RowLowerOf(n)  == Block(n, n.rlo_strt_)
RowUpperOf(n)  == Block(n, n.rup_strt_)

----------------------------------------------------------------------------
(* SmiCoreData::gutsOfConstructor, the core nodes and the dense arrays *)

\* Mutant: only the sorted indices are copied back, the elements stay
SortRowsIndicesOnly(n) ==
    LET sorted == [i \in 1..n.nrow_ |-> SortIncrIndex(RowOf(n, n.rowbeg_ + i - 1))]
        flat   == Flatten(sorted)
    IN  IF ~n.has_matrix_ THEN n
        ELSE [n EXCEPT
                !.inds_ = [j \in 1..Len(n.inds_) |->
                              IF j <= Len(flat) THEN flat[j].ind ELSE n.inds_[j]]]

\* "sort indices in each row" of a core node
SortRows(n) ==
    LET sorted == [i \in 1..n.nrow_ |-> SortIncrIndex(RowOf(n, n.rowbeg_ + i - 1))]
        flat   == Flatten(sorted)
    IN  IF ~n.has_matrix_ THEN n
        ELSE [n EXCEPT
                !.dels_ = [j \in 1..Len(n.dels_) |->
                              IF j <= Len(flat) THEN flat[j].el ELSE n.dels_[j]],
                !.inds_ = [j \in 1..Len(n.inds_) |->
                              IF j <= Len(flat) THEN flat[j].ind ELSE n.inds_[j]]]

\* Mutant: the dense array is handed out at its allocation base
StageDenseAtBase(v, n, start) ==
    [k \in Range0(n) |-> DenseVector(v, n + start)[k]]

\* cpv.denseVector(n + start) + start
StageDense(v, n, start) ==
    [k \in Range0(n) |-> DenseVector(v, n + start)[k + start]]

\* "store list with values of integer columns for cur stage only":
\* intColsStagewise[stage].push_back(indice - nColInPrevStages[stage]) for
\* the integer indices in the order given
IntColsStagewise(a, cnt, ex2in) ==
    LET nColInPrevStages == [t \in Range0(a.nstag) |->
                                IF t = 0 THEN 0 ELSE PartialSum(cnt, t - 1)]
        Pushed(t) == [i \in 1..a.integerLength |->
                        LET indice == a.integerIndices[i - 1]
                        IN  IF a.cstag[indice] = t
                            THEN <<indice - nColInPrevStages[t]>> ELSE <<>>]
    IN  [t \in Range0(a.nstag) |-> Flatten(Pushed(t))]

GutsOfConstructor(a) ==
    LET rm   == StageMaps(a.rstag, a.nrow, a.nstag)
        cm   == StageMaps(a.cstag, a.ncol, a.nstag)
        maps == [nrow_ |-> a.nrow, ncol_ |-> a.ncol, nstag_ |-> a.nstag,
                 integerIndices_ |-> a.integerIndices,
                 integerLength_ |-> a.integerLength,
                 intColsStagewise |-> IntColsStagewise(a, cm.cnt, cm.ex2in),
                 nColInStage_ |-> cm.cnt, nRowInStage_ |-> rm.cnt,
                 stageColPtr_ |-> cm.ptr, stageRowPtr_ |-> rm.ptr,
                 colStage_ |-> a.cstag, rowStage_ |-> a.rstag,
                 colEx2In_ |-> cm.ex2in, colIn2Ex_ |-> cm.in2ex,
                 rowEx2In_ |-> rm.ex2in, rowIn2Ex_ |-> rm.in2ex]
        New(t)  == SetCoreNode(SmiNodeData(t, maps, a.matrix,
                                           a.dclo, a.dcup, a.dobj, a.drlo, a.drup))
    IN  maps @@
        [nodes_ |-> [t \in Range0(a.nstag) |-> SortRows(New(t))],
         cdrlo_ |-> [t \in Range0(a.nstag) |->
                        StageDense(RowLowerOf(New(t)), rm.cnt[t], rm.ptr[t])],
         cdrup_ |-> [t \in Range0(a.nstag) |->
                        StageDense(RowUpperOf(New(t)), rm.cnt[t], rm.ptr[t])],
         cdclo_ |-> [t \in Range0(a.nstag) |->
                        StageDense(ColLowerOf(New(t)), cm.cnt[t], cm.ptr[t])],
         cdcup_ |-> [t \in Range0(a.nstag) |->
                        StageDense(ColUpperOf(New(t)), cm.cnt[t], cm.ptr[t])],
         cdobj_ |-> [t \in Range0(a.nstag) |->
                        StageDense(ObjectiveOf(New(t)), cm.cnt[t], cm.ptr[t])]]

\* SmiCoreData::SmiCoreData: gutsOfConstructor, then setHasQdata(false)
SmiCoreData(a) == GutsOfConstructor(a) @@ [hasQdata_ |-> FALSE]

----------------------------------------------------------------------------
(* The copy accessors *)

Kinds    == {"clo", "cup", "obj", "rlo", "rup"}
ColKinds == {"clo", "cup", "obj"}

\* The core's dense array of a kind, and the node's block of that kind
CoreDense(c, kind) ==
    CASE kind = "clo" -> c.cdclo_ [] kind = "cup" -> c.cdcup_
      [] kind = "obj" -> c.cdobj_ [] kind = "rlo" -> c.cdrlo_
      [] kind = "rup" -> c.cdrup_

NodeBlock(n, kind) ==
    CASE kind = "clo" -> ColLowerOf(n) [] kind = "cup" -> ColUpperOf(n)
      [] kind = "obj" -> ObjectiveOf(n) [] kind = "rlo" -> RowLowerOf(n)
      [] kind = "rup" -> RowUpperOf(n)

\* getNumCols(t) / getNumRows(t), getColStart(t) / getRowStart(t)
NumInStage(c, kind, t) ==
    IF kind \in ColKinds THEN c.nColInStage_[t] ELSE c.nRowInStage_[t]
StageStart(c, kind, t) ==
    IF kind \in ColKinds THEN c.stageColPtr_[t] ELSE c.stageRowPtr_[t]

\* Mutant: each accessor copies from the array of a sibling accessor
CoreCopySibling(c, kind, t) ==
    LET other == CASE kind = "clo" -> "cup" [] kind = "cup" -> "obj"
                   [] kind = "obj" -> "clo" [] kind = "rlo" -> "rup"
                   [] kind = "rup" -> "rlo"
    IN  [k \in Range0(NumInStage(c, kind, t)) |-> CoreDense(c, other)[t][k]]

\* SmiCoreData::copyRowLower, copyRowUpper, copyColLower, copyColUpper,
\* copyObjective: CoinDisjointCopyN(cd[t], getNum(t), d)
CoreCopy(c, kind, t) ==
    [k \in Range0(NumInStage(c, kind, t)) |-> CoreDense(c, kind)[t][k]]

\* The default combine rule on a dense array: d[ind - o] = el for every
\* entry of the override, the other positions unchanged
Process(d, o, v) ==
    [k \in DOMAIN d |->
        LET hits == SelectInd(v, k + o)
        IN  IF hits = <<>> THEN d[k] ELSE hits[Len(hits)].el]

\* Mutant: the combine rule runs for core nodes too
CombineWithCoreDoubleArrayAlways(n, d, v, o) ==
    [d |-> Process(d, o, v), processed |-> TRUE]

\* SmiNodeData::combineWithCoreDoubleArray: the array after the call, and
\* whether the combine rule ran
CombineWithCoreDoubleArray(n, d, v, o) ==
    IF ~n.isCoreNode_ THEN [d |-> Process(d, o, v), processed |-> TRUE]
                      ELSE [d |-> d, processed |-> FALSE]

\* SmiNodeData::copyRowLower, copyRowUpper, copyColLower, copyColUpper,
\* copyObjective.  d is the caller's array after the call, cd the core's
\* dense array of the node's stage after the call, processed tells whether
\* the combine rule ran.
NodeCopy(n, c, kind) ==
    LET t == n.stg_
        r == CombineWithCoreDoubleArray(n, CoreCopy(c, kind, t),
                                        NodeBlock(n, kind), StageStart(c, kind, t))
    IN  [d |-> r.d, cd |-> CoreDense(c, kind)[t], processed |-> r.processed]

----------------------------------------------------------------------------
(* Matrix rows: the dense row cache and the row combine *)

\* Mutant: a buffer is allocated on every call
GetDenseRowAlwaysNew(n, c, map, i) ==
    LET dv == DenseVector(RowOf(n, i), c.ncol_)
    IN  [map |-> [k \in DOMAIN map \cup {i} |->
                    IF k = i THEN [ptr |-> Cardinality(DOMAIN map) + 1, dv |-> dv]
                    ELSE map[k]],
         ret |-> Cardinality(DOMAIN map) + 1]

\* Mutant: the buffer is not zeroed before the row is scattered into it
GetDenseRowNoFill(n, c, map, i) ==
    LET isnull == i \notin DOMAIN map
        ptr    == IF isnull THEN Cardinality(DOMAIN map) + 1 ELSE map[i].ptr
        old    == IF isnull THEN [k \in Range0(c.ncol_) |-> 0] ELSE map[i].dv
        dv     == Process(old, 0, RowOf(n, i))
    IN  [map |-> [k \in DOMAIN map \cup {i} |->
                    IF k = i THEN [ptr |-> ptr, dv |-> dv] ELSE map[k]],
         ret |-> ptr]

\* SmiNodeData::getDenseRow(i) on a node whose cache is map (the row's
\* buffer pointer and the buffer's content).  A pointer is the serial
\* number of its allocation.
GetDenseRow(n, c, map, i) ==
    LET denseSize == c.ncol_
        isnull    == i \notin DOMAIN map
        ptr       == IF isnull THEN Cardinality(DOMAIN map) + 1 ELSE map[i].ptr
        dv        == DenseVector(RowOf(n, i), denseSize)
    IN  [map |-> [k \in DOMAIN map \cup {i} |->
                    IF k = i THEN [ptr |-> ptr, dv |-> dv] ELSE map[k]],
         ret |-> ptr]

\* The set idx as an ascending sequence
RECURSIVE Ascending(_)
Ascending(idx) ==
    IF idx = {} THEN <<>>
    ELSE LET lo == CHOOSE i \in idx : \A k \in idx : i <= k
         IN  <<lo>> \o Ascending(idx \ {lo})

ValueAt(v, i) == LET hits == SelectInd(v, i) IN hits[Len(hits)].el

\* The default combine rule on two packed rows: the union of the indices,
\* the node's value where both have one
ProcessRows(cr, nr) ==
    LET idx == Ascending(Indices(cr) \cup Indices(nr))
    IN  [j \in 1..Len(idx) |->
            Entry(idx[j], IF idx[j] \in Indices(nr) THEN ValueAt(nr, idx[j])
                                                     ELSE ValueAt(cr, idx[j]))]

\* Mutant: the two rows are handed to the rule in the other order
CombineWithCoreRowSwapped(cr, nr) == ProcessRows(nr, cr)

\* SmiNodeData::combineWithCoreRow(cr, nr)
CombineWithCoreRow(cr, nr) == ProcessRows(cr, nr)

----------------------------------------------------------------------------
(* The quadratic objective *)

\* The quadratic data handed to addQuadraticObjectiveToCore: per external
\* column the entries (column index, value), stored column after column
QFamily == {"none", "diag", "skip", "chain"}

\* "diag": every column has its diagonal term; "skip": every column but
\* column 1 has it; "chain": column j has a term with column j+1 (cyclic)
\* and its diagonal term
QColumn(fam, j, nc) ==
    CASE fam = "none"  -> <<>>
      [] fam = "diag"  -> <<Entry(j, 600 + j)>>
      [] fam = "skip"  -> IF j = 1 THEN <<>> ELSE <<Entry(j, 600 + j)>>
      [] fam = "chain" -> IF nc = 1 THEN <<Entry(j, 600 + j)>>
                          ELSE <<Entry((j + 1) % nc, 700 + j), Entry(j, 600 + j)>>

QArgs(fam, nc) ==
    LET cols == [i \in 1..nc |-> QColumn(fam, i - 1, nc)]
        flat == Flatten(cols)
    IN  [starts |-> [j \in 0..nc |-> Len(Flatten(SubSeq(cols, 1, j)))],
         indx   |-> [k \in Range0(Len(flat)) |-> flat[k + 1].ind],
         els    |-> [k \in Range0(Len(flat)) |-> flat[k + 1].el]]

\* SmiQuadraticData::getNumEls and hasData
QNumEls(q, ncols) == q.starts[ncols]
QHasData(q, ncols) == QNumEls(q, ncols) > 0

\* new SmiQuadraticDataDC(ncols, nels): zeroed column starts, index and
\* value arrays for nels entries that hold nothing yet
SmiQuadraticDataDC(ncols, nels) ==
    [state |-> "live", hasData |-> FALSE,
     starts |-> [k \in 0..ncols |-> 0],
     indx |-> [k \in Range0(nels) |-> Uninit],
     els  |-> [k \in Range0(nels) |-> Uninit]]

\* Mutant: the entry counts are recorded at the external column position
QuadraticStartsExternal(c, stg, q, zeroed) ==
    LET cnt == [k \in 0..c.ncol_ |->
                  IF k > 0 /\ c.colStage_[k - 1] = stg
                  THEN q.starts[k] - q.starts[k - 1] ELSE zeroed[k]]
    IN  [k \in 0..c.ncol_ |-> PartialSum(cnt, k)]

\* "record where node Q data columns are in the new column ordering" and
\* "set column starts in the new new column ordering"
QuadraticStarts(c, stg, q, zeroed) ==
    LET Owners(k) == {j \in Range0(c.ncol_) :
                         c.colStage_[j] = stg /\ c.colEx2In_[j] + 1 = k}
        Last(k)   == CHOOSE j \in Owners(k) : \A i \in Owners(k) : i <= j
        cnt == [k \in 0..c.ncol_ |->
                  IF k = 0 \/ Owners(k) = {} THEN zeroed[k]
                  ELSE q.starts[Last(k) + 1] - q.starts[Last(k)]]
    IN  [k \in 0..c.ncol_ |-> PartialSum(cnt, k)]

\* The writes of the "copy data" loop in the order the code makes them: for
\* the stage's columns in external order, each entry with its position in
\* the node's arrays, its source column index and its value
QuadraticCopies(c, stg, q, nqstarts) ==
    Flatten([i \in 1..c.ncol_ |->
        LET j == i - 1
        IN  IF c.colStage_[j] # stg THEN <<>>
            ELSE [l \in 1..(q.starts[j + 1] - q.starts[j]) |->
                     [ii  |-> nqstarts[c.colEx2In_[j]] + l - 1,
                      ind |-> q.indx[q.starts[j] + l - 1],
                      el  |-> q.els[q.starts[j] + l - 1]]]])

\* SmiNodeData::addQuadraticObjective(stg, smicore, sqdata): the node after
\* the call and whether the call left by the throw
AddQuadraticObjective(n, stg, c, q) ==
    LET fresh    == SmiQuadraticDataDC(c.ncol_, QNumEls(q, c.ncol_))
        nqstarts == QuadraticStarts(c, stg, q, fresh.starts)
        nqels    == nqstarts[c.ncol_]
        work     == QuadraticCopies(c, stg, q, nqstarts)
        bad      == {p \in 1..Len(work) : c.colStage_[work[p].ind] # stg}
        stop     == IF bad = {} THEN Len(work) + 1
                    ELSE CHOOSE p \in bad : \A o \in bad : p <= o
        Written(k) == {p \in 1..(stop - 1) : work[p].ii = k}
        LastOf(k)  == CHOOSE p \in Written(k) : \A o \in Written(k) : o <= p
    IN  IF nqels = 0
        THEN [node |-> [n EXCEPT !.hasQdata_ = FALSE,
                                 !.nqdata_ = [state |-> "deleted"]],
              thrown |-> FALSE]
        ELSE [node |-> [n EXCEPT
                 !.hasQdata_ = TRUE,
                 !.nqdata_ = [fresh EXCEPT
                    !.hasData = TRUE,
                    !.starts = nqstarts,
                    !.indx = [k \in DOMAIN fresh.indx |->
                                IF Written(k) = {} THEN fresh.indx[k]
                                ELSE c.colEx2In_[work[LastOf(k)].ind]],
                    !.els  = [k \in DOMAIN fresh.els |->
                                IF Written(k) = {} THEN fresh.els[k]
                                ELSE work[LastOf(k)].el]]],
              thrown |-> bad # {}]

\* SmiCoreData::addQuadraticObjectiveToCore(starts, indx, dels): the core
\* after the call and whether the exception of a node came through
AddQuadraticObjectiveToCore(c, q) ==
    LET R(t)   == AddQuadraticObjective(c.nodes_[t], t, c, q)
        failed == {t \in Range0(c.nstag_) : R(t).thrown}
        tfail  == IF failed = {} THEN c.nstag_
                  ELSE CHOOSE t \in failed : \A o \in failed : t <= o
    IN  IF ~QHasData(q, c.ncol_)
        THEN [core |-> [sqp_ |-> q] @@ c, thrown |-> FALSE]
        ELSE [core |-> [sqp_ |-> q] @@
                       [c EXCEPT !.hasQdata_ = TRUE,
                                 !.nodes_ = [t \in Range0(c.nstag_) |->
                                               IF t <= tfail THEN R(t).node
                                               ELSE c.nodes_[t]]],
              thrown |-> failed # {}]

----------------------------------------------------------------------------
(* Allocation and release of the buffers *)

\* A buffer is named by the member that points to it and a stage (-1 for a
\* member of the core that is no per-stage array); a pointer is a buffer
\* and an offset into it
Buf(name, t) == <<name, t>>
PtrTo(name, t, off) == [buf |-> Buf(name, t), off |-> off]

\* The arrays gutsOfConstructor allocates with new[], one each
CoreArrays ==
    {"integerIndices_", "binaryIndices_", "nColInStage_", "nRowInStage_",
     "colStage_", "colEx2In_", "colIn2Ex_", "rowStage_", "rowEx2In_",
     "rowIn2Ex_", "stageRowPtr_", "stageColPtr_",
     "cdclo_", "cdcup_", "cdobj_", "cdrlo_", "cdrup_"}

\* The dense arrays of one stage, denseVector(n + start)
DenseArrays == {"cdrlo_[t]", "cdrup_[t]", "cdclo_[t]", "cdcup_[t]", "cdobj_[t]"}

\* What realloc(p, 0) does with a block p: free it and return NULL, return
\* NULL and leave it, or return a block of its own
ReallocZero == {"freed_null", "kept_null", "moved"}

\* The outcomes of the two realloc calls that end the constructor of node
\* n: a shrink to the copied entries, or one of the above when no entry
\* was copied into an allocated buffer
ReallocOutcomes(n) ==
    IF n.nels_ > 0 /\ Len(n.dels_) = 0 THEN ReallocZero ELSE {"shrunk"}

\* SmiNodeData::assignMemory: the buffers of a node
NodeAllocations(n) ==
    {Buf("strt_", n.stg_)}
    \cup (IF n.nels_ = 0 THEN {} ELSE {Buf("dels_", n.stg_), Buf("inds_", n.stg_)})

\* "return excess memory to the heap": what the two realloc calls at the
\* end of the constructor release for good.  The members keep their value
\* when realloc returns NULL.
ShrinkReleases(n, ro) ==
    IF n.nels_ > 0 /\ Len(n.dels_) = 0 /\ ro = "freed_null"
    THEN <<PtrTo("dels_", n.stg_, 0), PtrTo("inds_", n.stg_, 0)>>
    ELSE <<>>

\* SmiNodeData::deleteMemory: free of each member that is not NULL
DeleteMemory(n) ==
    (IF n.nels_ = 0 THEN <<>>
     ELSE <<PtrTo("dels_", n.stg_, 0), PtrTo("inds_", n.stg_, 0)>>)
    \o <<PtrTo("strt_", n.stg_, 0)>>

\* SmiNodeData::~SmiNodeData on a node whose dense row cache is map
NodeDestructor(n, map) ==
    LET rows == Ascending(DOMAIN map)
    IN  [j \in 1..Len(rows) |-> PtrTo("dRowMap", rows[j], 0)] \o DeleteMemory(n)

\* Everything new SmiCoreData allocates and keeps
CoreAllocations(c) ==
    {Buf(a, -1) : a \in CoreArrays}
    \cup {Buf(a, t) : a \in DenseArrays \cup {"nodes_[t]"}, t \in Range0(c.nstag_)}
    \cup UNION {NodeAllocations(c.nodes_[t]) : t \in Range0(c.nstag_)}

\* The pointers gutsOfConstructor stores for the dense arrays of stage t:
\* denseVector(n + start) + start
StoredDense(c, t) ==
    <<PtrTo("cdrlo_[t]", t, c.stageRowPtr_[t]), PtrTo("cdrup_[t]", t, c.stageRowPtr_[t]),
      PtrTo("cdclo_[t]", t, c.stageColPtr_[t]), PtrTo("cdcup_[t]", t, c.stageColPtr_[t]),
      PtrTo("cdobj_[t]", t, c.stageColPtr_[t])>>

\* The releases of the construction and of SmiCoreData::~SmiCoreData, in
\* the order of the code.  No dense row was asked of a core node.
CoreDestructor(c, ro) ==
    LET Back(p, t) == [p EXCEPT !.off = @ - (IF p.buf[1] \in {"cdrlo_[t]", "cdrup_[t]"}
                                             THEN c.stageRowPtr_[t]
                                             ELSE c.stageColPtr_[t])]
        Dense(t)   == [j \in 1..5 |-> Back(StoredDense(c, t)[j], t)]
        arrays     == <<"nColInStage_", "nRowInStage_", "colStage_", "rowStage_",
                        "colEx2In_", "rowEx2In_", "colIn2Ex_", "rowIn2Ex_",
                        "stageColPtr_", "stageRowPtr_",
                        "cdrlo_", "cdrup_", "cdclo_", "cdcup_", "cdobj_",
                        "integerIndices_">>
        Node(t)    == NodeDestructor(c.nodes_[t], <<>>) \o <<PtrTo("nodes_[t]", t, 0)>>
    IN  Flatten([i \in 1..c.nstag_ |-> ShrinkReleases(c.nodes_[i - 1], ro)])
        \o Flatten([i \in 1..c.nstag_ |-> Dense(i - 1)])
        \o [j \in 1..Len(arrays) |-> PtrTo(arrays[j], -1, 0)]
        \o Flatten([i \in 1..c.nstag_ |-> Node(i - 1)])

----------------------------------------------------------------------------
(* The state machine *)

NoCore == [nstag_ |-> 0]
NoNode == [stg_ |-> -1]
NoDest == [by |-> "none"]
NoMap  == [i \in {} |-> 0]

\* The value a caller leaves in a dense row buffer it has worked in
Scribble == 77
\* no scenario tree: the runs of the core and node operations have none
NoTree  == [nmbStages |-> 0]
NoFrame == [at |-> "none"]

InitWith(a) ==
    /\ pc = "start"
    /\ args = a
    /\ core = NoCore
    /\ nargs = NoNode
    /\ node = NoNode
    /\ dRowMap = NoMap
    /\ dest = NoDest
    /\ prev = NoDest
    /\ scTree = NoTree
    /\ frame = NoFrame

Init ==
    \E ns \in 1..MaxStages, nc \in 1..MaxCols, nr \in 1..MaxRows, shape \in Shapes :
       \E l \in ValidLabels(nc, nr, ns) \cup BadLabels(nc, nr, ns) :
          InitWith(GutsArgs(ns, nc, nr, l[1], l[2], shape))

\* new SmiCoreData(...).  A label outside [0,nstag] indexes the count and
\* start arrays outside their nstag+1 slots: the process aborts or goes on
\* with an object of unspecified content.
Construct ==
    /\ pc = "start"
    /\ IF LabelsInBounds(args)
       THEN /\ pc' = "built"
            /\ core' = SmiCoreData(args)
       ELSE /\ pc' \in {"crashed", "corrupt"}
            /\ core' = core
    /\ UNCHANGED <<args, nargs, node, dRowMap, dest, prev, scTree, frame>>

\* The caller makes one copy or row-combine call, or a run of getDenseRow
\* calls, on the object it has taken.

\* core.copyColLower(d, t) and its four siblings
CoreCopyCall ==
    /\ pc = "built"
    /\ node = NoNode
    /\ dest = NoDest
    /\ \E kind \in Kinds, t \in Range0(core.nstag_) :
         dest' = [by |-> "core", kind |-> kind, stg |-> t,
                  d |-> CoreCopy(core, kind, t)]
    /\ UNCHANGED <<pc, args, core, nargs, node, dRowMap, prev, scTree, frame>>

\* The caller takes the core node of stage t
UseCoreNode ==
    /\ pc = "built"
    /\ node = NoNode
    /\ dest = NoDest
    /\ \E t \in Range0(core.nstag_) :
         /\ node' = core.nodes_[t]
         /\ nargs' = [stg |-> t, matrix |-> args.matrix,
                      dclo |-> args.dclo, dcup |-> args.dcup, dobj |-> args.dobj,
                      drlo |-> args.drlo, drup |-> args.drup]
    /\ dRowMap' = NoMap
    /\ dest' = NoDest
    /\ prev' = NoDest
    /\ UNCHANGED <<pc, args, core, scTree, frame>>

\* node.copyColLower(d) and its four siblings
NodeCopyCall ==
    /\ pc = "built"
    /\ node # NoNode
    /\ dest = NoDest
    /\ \E kind \in Kinds :
         LET r == NodeCopy(node, core, kind)
         IN  /\ dest' = [by |-> "node", kind |-> kind, stg |-> node.stg_,
                         d |-> r.d, processed |-> r.processed]
             /\ core' = [core EXCEPT
                            !.cdclo_[node.stg_] = IF kind = "clo" THEN r.cd ELSE @,
                            !.cdcup_[node.stg_] = IF kind = "cup" THEN r.cd ELSE @,
                            !.cdobj_[node.stg_] = IF kind = "obj" THEN r.cd ELSE @,
                            !.cdrlo_[node.stg_] = IF kind = "rlo" THEN r.cd ELSE @,
                            !.cdrup_[node.stg_] = IF kind = "rup" THEN r.cd ELSE @]
    /\ prev' = NoDest
    /\ UNCHANGED <<pc, args, nargs, node, dRowMap, scTree, frame>>

Next ==
    \/ Construct
    \/ CoreCopyCall
    \/ UseCoreNode
    \/ NodeCopyCall

Spec == Init /\ [][Next]_vars

\* The constructions that succeed, over a core matrix that has entries
InitNode ==
    \E ns \in 1..MaxStages, nc \in 1..MaxCols, nr \in 1..MaxRows,
       shape \in Shapes \ {"empty"} :
       \E l \in ValidLabels(nc, nr, ns) :
          InitWith(GutsArgs(ns, nc, nr, l[1], l[2], shape))

\* new SmiNodeData(stg, core, matrix, dclo, dcup, dobj, drlo, drup) for a
\* scenario-tree node
NewScenarioNode ==
    /\ pc = "built"
    /\ node = NoNode
    /\ dest = NoDest
    /\ \E stg \in Range0(core.nstag_), variant \in Variants,
          sel \in SelFamily(Max(core.ncol_, core.nrow_)) :
         LET a == NodeArgs(stg, sel, variant, core.ncol_, core.nrow_)
         IN  /\ nargs' = a
             /\ node' = SmiNodeData(stg, core, a.matrix,
                                    a.dclo, a.dcup, a.dobj, a.drlo, a.drup)
    /\ dRowMap' = NoMap
    /\ dest' = NoDest
    /\ prev' = NoDest
    /\ UNCHANGED <<pc, args, core, scTree, frame>>

\* The bound and objective vectors have no part in a dense row: the rows
\* are asked of nodes that were given each vector whole or not at all
WholeVectors ==
    /\ \A p \in {nargs.dclo, nargs.dcup, nargs.dobj} :
          p.null \/ Len(p.v) = core.ncol_
    /\ \A p \in {nargs.drlo, nargs.drup} :
          p.null \/ Len(p.v) = core.nrow_

\* node.getDenseRow(i) for a row of the node's stage
GetDenseRowCall ==
    /\ pc = "built"
    /\ node # NoNode
    /\ WholeVectors
    /\ dest.by \in {"none", "dense", "written"}
    /\ \E i \in node.rowbeg_..(node.rowbeg_ + node.nrow_ - 1) :
         LET r == GetDenseRow(node, core, dRowMap, i)
         IN  /\ dRowMap' = r.map
             /\ dest' = [by |-> "dense", row |-> i, ptr |-> r.ret,
                         dv |-> r.map[i].dv,
                         nalloc |-> Cardinality(DOMAIN r.map)]
             /\ prev' = IF dest.by \in {"dense", "written"} /\ dest.row = i
                        THEN dest ELSE NoDest
    /\ UNCHANGED <<pc, args, core, nargs, node, scTree, frame>>

\* The caller, or a combine step working in place, overwrites the buffer
\* that getDenseRow returned last
WriteDenseRowCall ==
    /\ pc = "built"
    /\ dest.by = "dense"
    /\ LET dv == [k \in DOMAIN dest.dv |-> Scribble]
       IN  /\ dRowMap' = [dRowMap EXCEPT ![dest.row].dv = dv]
           /\ dest' = [by |-> "written", row |-> dest.row, ptr |-> dest.ptr,
                       dv |-> dv, nalloc |-> dest.nalloc]
    /\ prev' = NoDest
    /\ UNCHANGED <<pc, args, core, nargs, node, scTree, frame>>

\* node.combineWithCoreRow(cr, nr) with row i of the core node of the
\* node's stage and row i of the scenario node
CombineWithCoreRowCall ==
    /\ pc = "built"
    /\ node # NoNode
    /\ ~node.isCoreNode_
    /\ dest = NoDest
    /\ \E i \in node.rowbeg_..(node.rowbeg_ + node.nrow_ - 1) :
         LET cr == RowOf(core.nodes_[node.stg_], i)
             nr == RowOf(node, i)
         IN  dest' = [by |-> "row", row |-> i, cr |-> cr, nr |-> nr,
                      out |-> CombineWithCoreRow(cr, nr)]
    /\ prev' = NoDest
    /\ UNCHANGED <<pc, args, core, nargs, node, dRowMap, scTree, frame>>

NextNode ==
    \/ Construct
    \/ CoreCopyCall
    \/ UseCoreNode
    \/ NodeCopyCall
    \/ NewScenarioNode
    \/ GetDenseRowCall
    \/ CombineWithCoreRowCall

SpecNode == InitNode /\ [][NextNode]_vars


\* delete core
DestroyCore ==
    /\ pc = "built"
    /\ node = NoNode
    /\ dest = NoDest
    /\ pc' = "destroyed"
    /\ \E ro \in ReallocZero :
         dest' = [by |-> "destroy",
                  allocated |-> CoreAllocations(core),
                  released  |-> CoreDestructor(core, ro)]
    /\ UNCHANGED <<args, core, nargs, node, dRowMap, prev, scTree, frame>>

\* delete node, for a scenario node
DestroyNode ==
    /\ pc = "built"
    /\ node # NoNode
    /\ ~node.isCoreNode_
    /\ dest.by \in {"none", "dense"}
    /\ \E ro \in ReallocOutcomes(node) :
         dest' = [by |-> "destroyNode",
                  allocated |-> NodeAllocations(node)
                                \cup {Buf("dRowMap", i) : i \in DOMAIN dRowMap},
                  released  |-> ShrinkReleases(node, ro)
                                \o NodeDestructor(node, dRowMap)]
    /\ dRowMap' = NoMap
    /\ prev' = NoDest
    /\ UNCHANGED <<pc, args, core, nargs, node, scTree, frame>>

\* core.addQuadraticObjectiveToCore(starts, indx, dels)
AddQuadraticObjectiveCall ==
    /\ pc = "built"
    /\ node = NoNode
    /\ dest = NoDest
    /\ \E fam \in QFamily :
         LET q == QArgs(fam, core.ncol_)
             r == AddQuadraticObjectiveToCore(core, q)
         IN  /\ core' = r.core
             /\ dest' = [by |-> "quad", q |-> q, thrown |-> r.thrown]
    /\ UNCHANGED <<pc, args, nargs, node, dRowMap, prev, scTree, frame>>

NextLife ==
    \/ Construct
    \/ AddQuadraticObjectiveCall
    \/ NewScenarioNode
    \/ GetDenseRowCall
    \/ WriteDenseRowCall
    \/ DestroyCore
    \/ DestroyNode

SpecLife == InitNode /\ [][NextLife]_vars
----------------------------------------------------------------------------
(* The scenario tree of the investment example: a balanced binary tree     *)
(* whose nodes are numbered 0..nmbNodes-1 level by level, 0 the root       *)

\* 2^k, the value of (int) pow(2.0, k)
RECURSIVE Pow2(_)
Pow2(k) == IF k = 0 THEN 1 ELSE 2 * Pow2(k - 1)

\* the int division of C, which truncates toward zero
CDiv(a, b) == IF a >= 0 THEN a \div b ELSE -((-a) \div b)

\* Mutant: the parent is n / 2
get_parentHalf(n) == CDiv(n, 2)

\* BinTreeStruct::get_parent: (n-1) / 2, which gives get_parent(0) = 0
get_parent(n) == CDiv(n - 1, 2)

\* BinTreeStruct::BinTreeStruct(T): 2^T-1 nodes, the first leaf is 2^(T-1)-1,
\* scenNodeNmb = new int[T] is left unwritten
BinTreeStruct(T) ==
    [nmbNodes    |-> Pow2(T) - 1,
     firstLeaf   |-> Pow2(T - 1) - 1,
     nmbStages   |-> T,
     scenNodeNmb |-> [t \in Range0(T) |-> Uninit],
     nextLeaf    |-> Pow2(T - 1) - 1]

getNmbScen(tree) == tree.nmbNodes - tree.firstLeaf

\* the loop of getCoreScenario: for (t = nmbStages; t > 0; t--)
RECURSIVE CoreScenarioLoop(_, _, _)
CoreScenarioLoop(a, t, n) ==
    IF t > 0
    THEN CoreScenarioLoop([a EXCEPT ![t - 1] = n], t - 1, get_parent(n))
    ELSE a

\* BinTreeStruct::getCoreScenario: the path of the first leaf
getCoreScenario(tree) ==
    [tree EXCEPT !.scenNodeNmb =
        CoreScenarioLoop(@, tree.nmbStages, tree.firstLeaf)]

\* the loop of getNextScenario: while (n != scenNodeNmb[t]), with its
\* assertion n > 0 && t > 0; failed tells that the assertion stopped it
RECURSIVE Climb(_, _, _)
Climb(a, n, t) ==
    IF n = a[t]
    THEN [a |-> a, n |-> n, t |-> t, failed |-> FALSE]
    ELSE IF ~(n > 0 /\ t > 0)
         THEN [a |-> a, n |-> n, t |-> t, failed |-> TRUE]
         ELSE Climb([a EXCEPT ![t] = n], get_parent(n), t - 1)

\* Mutant: the parent scenario is scen - 1 for every scenario
ScenOutputsParentBelow(tree, t) ==
    LET scen == tree.nextLeaf - tree.firstLeaf
    IN  [scen        |-> scen,
         parentScen  |-> scen - 1,
         branchStage |-> IF scen = 0 THEN 1 ELSE t + 1,
         scenProb    |-> [num |-> 1, den |-> getNmbScen(tree)]]

\* what getNextScenario writes through its four pointers once the loop has
\* stopped at t; the double 1.0 / getNmbScen() is kept as the ratio
ScenOutputs(tree, t) ==
    LET scen == tree.nextLeaf - tree.firstLeaf
    IN  [scen        |-> scen,
         parentScen  |-> IF scen = 0 THEN 0 ELSE scen - 1,
         branchStage |-> IF scen = 0 THEN 1 ELSE t + 1,
         scenProb    |-> [num |-> 1, den |-> getNmbScen(tree)]]

\* BinTreeStruct::getNextScenario, out being what the four pointers point
\* at: the object and the outputs after the call, and the value returned
getNextScenario(tree, out) ==
    IF tree.nextLeaf = tree.nmbNodes
    THEN [tree |-> tree, out |-> out, ret |-> "NULL"]
    ELSE LET c == Climb(tree.scenNodeNmb, tree.nextLeaf, tree.nmbStages - 1)
         IN  IF c.failed
             THEN [tree |-> [tree EXCEPT !.scenNodeNmb = c.a],
                   out  |-> out, ret |-> "assert"]
             ELSE [tree |-> [tree EXCEPT !.scenNodeNmb = c.a,
                                         !.nextLeaf = @ + 1],
                   out  |-> ScenOutputs(tree, c.t), ret |-> "scenNodeNmb"]

----------------------------------------------------------------------------
(* main of the investment example, from the construction of the tree to    *)
(* the end of the loop that adds the scenarios                             *)

NoArgs == [nstag |-> 0]

\* BinTreeStruct scTree(nmbStages); scen, parentScen, branchStage, scenProb
\* and t are declared without a value
InitTree ==
    /\ pc = "example"
    /\ args = NoArgs
    /\ core = NoCore
    /\ nargs = NoNode
    /\ node = NoNode
    /\ dRowMap = NoMap
    /\ dest = NoDest
    /\ prev = NoDest
    /\ \E T \in 1..MaxT : scTree = BinTreeStruct(T)
    /\ frame = [at        |-> "constructed",
                ret       |-> "none",
                out       |-> [scen |-> Uninit, parentScen |-> Uninit,
                               branchStage |-> Uninit, scenProb |-> Uninit],
                t         |-> Uninit,
                row       |-> Uninit,
                atEntry   |-> <<>>,
                calls     |-> 0,
                nullCalls |-> 0,
                generated |-> 0]

coreVars == <<pc, args, core, nargs, node, dRowMap, dest, prev>>

\* int * scenNodeNmb = scTree.getCoreScenario();
GetCoreScenarioCall ==
    /\ frame.at = "constructed"
    /\ scTree' = getCoreScenario(scTree)
    /\ frame' = [frame EXCEPT !.at = "loop", !.ret = "scenNodeNmb"]
    /\ UNCHANGED coreVars

\* scenNodeNmb = scTree.getNextScenario(&scen, &parentScen, &branchStage,
\* &scenProb): the condition of the while loop, and the same call made again
\* after the one that ended the loop.  A non-NULL return enters the for loop
\* with t = branchStage.  calls counts the calls, atEntry is the array as
\* the call found it.
GetNextScenarioCall ==
    /\ frame.at \in {"loop", "done"}
    /\ frame.nullCalls <= MaxLaterCalls
    /\ LET r == getNextScenario(scTree, frame.out)
       IN  /\ scTree' = r.tree
           /\ frame' = [frame EXCEPT
                 !.at        = CASE r.ret = "NULL"   -> "done"
                                 [] r.ret = "assert" -> "assert_failed"
                                 [] OTHER            -> "returned",
                 !.ret       = r.ret,
                 !.out       = r.out,
                 !.t         = IF r.ret = "scenNodeNmb"
                               THEN r.out.branchStage ELSE @,
                 !.atEntry   = scTree.scenNodeNmb,
                 !.calls     = @ + 1,
                 !.nullCalls = IF r.ret = "NULL" THEN @ + 1 ELSE @]
    /\ UNCHANGED coreVars

\* one turn of for (t=branchStage; t<nmbStages; t++): the returns of node
\* scenNodeNmb[t], row scenNodeNmb[t]-1 of retData, are loaded into ADiff
LoadModifiedMatrixStep ==
    /\ frame.at = "returned"
    /\ frame.t < scTree.nmbStages
    /\ frame' = [frame EXCEPT !.row = scTree.scenNodeNmb[frame.t] - 1,
                              !.t   = @ + 1]
    /\ UNCHANGED <<scTree, coreVars>>

\* the for loop is over: stochModel.generateScenario(..., branchStage,
\* parentScen, scenProb), and back to the condition of the while loop
GenerateScenarioCall ==
    /\ frame.at = "returned"
    /\ frame.t >= scTree.nmbStages
    /\ frame' = [frame EXCEPT !.at = "loop", !.generated = @ + 1]
    /\ UNCHANGED <<scTree, coreVars>>

NextTree ==
    \/ GetCoreScenarioCall
    \/ GetNextScenarioCall
    \/ LoadModifiedMatrixStep
    \/ GenerateScenarioCall

SpecTree == InitTree /\ [][NextTree]_vars
----------------------------------------------------------------------------
(* Properties of the index maps built by the constructor *)

Built == pc = "built" /\ LabelsInRange(args)

\* ex2in and in2ex are inverse bijections of 0..n-1
Inverse(ex2in, in2ex, n) ==
    /\ \A e \in Range0(n) : ex2in[e] \in Range0(n) /\ in2ex[ex2in[e]] = e
    /\ \A i \in Range0(n) : in2ex[i] \in Range0(n) /\ ex2in[in2ex[i]] = i

\* C1: after construction with every label in [0,nstages) the external to
\* internal map and the internal to external map are inverse bijections,
\* for the columns over [0,ncol) and for the rows over [0,nrow).
C1_MapsInverse ==
    Built => /\ Inverse(core.colEx2In_, core.colIn2Ex_, core.ncol_)
             /\ Inverse(core.rowEx2In_, core.rowIn2Ex_, core.nrow_)

NonMonotone(stag, n) == \E a, b \in Range0(n) : a < b /\ stag[a] > stag[b]

C1_Witness ==
    /\ Built
    /\ NonMonotone(args.cstag, args.ncol) /\ NonMonotone(args.rstag, args.nrow)
    /\ \E c \in Range0(core.ncol_) : core.colEx2In_[c] # c
    /\ \E r \in Range0(core.nrow_) : core.rowEx2In_[r] # r

StartsAreSums(ptr, cnt, stag, n, nstag) ==
    /\ ptr[0] = 0
    /\ ptr[nstag] = n
    /\ \A t \in Range0(nstag) :
          /\ ptr[t + 1] - ptr[t] = Cardinality({e \in Range0(n) : stag[e] = t})
          /\ ptr[t + 1] - ptr[t] = cnt[t]

\* C2: after construction the start offsets are the prefix sums of the
\* per-stage counts: start(t+1) - start(t) is the number of columns labelled
\* t and is getNumCols(t), start(0) = 0 and start(nstages) = ncol; the same
\* for the rows.
C2_StartsAreSums ==
    Built => /\ StartsAreSums(core.stageColPtr_, core.nColInStage_,
                              core.colStage_, core.ncol_, core.nstag_)
             /\ StartsAreSums(core.stageRowPtr_, core.nRowInStage_,
                              core.rowStage_, core.nrow_, core.nstag_)

C2_Witness ==
    /\ Built
    /\ \E t \in Range0(core.nstag_) : core.nColInStage_[t] >= 2
    /\ \E t \in Range0(core.nstag_) : core.nRowInStage_[t] >= 2
    /\ \E t \in Range0(core.nstag_) : t > 0 /\ core.stageColPtr_[t] > 0
                                            /\ core.stageRowPtr_[t] > 0

Contiguous(ptr, stag, ex2in, in2ex, n, nstag) ==
    /\ \A t \in Range0(nstag) : \A i \in ptr[t]..(ptr[t + 1] - 1) :
          i \in Range0(n) /\ in2ex[i] \in Range0(n) /\ stag[in2ex[i]] = t
    /\ \A a, b \in Range0(n) : stag[a] < stag[b] => ex2in[a] < ex2in[b]

\* C3: internal numbering is stage-contiguous: every internal index inside
\* the range of stage t belongs to an external column labelled t, and the
\* columns of an earlier stage precede those of a later stage, whatever the
\* order of the labels; the same for the rows.
C3_StageContiguous ==
    Built => /\ Contiguous(core.stageColPtr_, core.colStage_, core.colEx2In_,
                           core.colIn2Ex_, core.ncol_, core.nstag_)
             /\ Contiguous(core.stageRowPtr_, core.rowStage_, core.rowEx2In_,
                           core.rowIn2Ex_, core.nrow_, core.nstag_)

C3_Witness ==
    /\ Built
    /\ NonMonotone(args.cstag, args.ncol)
    /\ NonMonotone(args.rstag, args.nrow)
    /\ \E t \in Range0(core.nstag_) : core.nColInStage_[t] >= 2

\* C4: inside a stage the internal numbering keeps the external order.
C4_FirstSeenOrder ==
    Built => /\ \A a, b \in Range0(core.ncol_) :
                  (a < b /\ core.colStage_[a] = core.colStage_[b])
                      => core.colEx2In_[a] < core.colEx2In_[b]
             /\ \A a, b \in Range0(core.nrow_) :
                  (a < b /\ core.rowStage_[a] = core.rowStage_[b])
                      => core.rowEx2In_[a] < core.rowEx2In_[b]

C4_Witness ==
    /\ Built
    /\ \E a, b, c \in Range0(core.ncol_) :
          /\ a < b /\ b < c
          /\ core.colStage_[a] = core.colStage_[c]
          /\ core.colStage_[b] < core.colStage_[a]
    /\ \E a, b \in Range0(core.nrow_) : a < b /\ core.rowEx2In_[a] > core.rowEx2In_[b]

----------------------------------------------------------------------------
(* Properties of the copy accessors of a node *)

InputOf(kind) ==
    CASE kind = "clo" -> nargs.dclo [] kind = "cup" -> nargs.dcup
      [] kind = "obj" -> nargs.dobj [] kind = "rlo" -> nargs.drlo
      [] kind = "rup" -> nargs.drup

StageOf(kind) == IF kind \in ColKinds THEN core.colStage_ ELSE core.rowStage_
Ex2InOf(kind) == IF kind \in ColKinds THEN core.colEx2In_ ELSE core.rowEx2In_

\* The values the input vector of the node gives internal index pos of
\* stage t
Overrides(kind, t, pos) ==
    LET v == InputOf(kind).v
    IN  {v[j].el : j \in {j \in 1..Len(v) :
                            /\ StageOf(kind)[v[j].ind] = t
                            /\ Ex2InOf(kind)[v[j].ind] = pos}}

ScenarioCopyDone == pc = "built" /\ dest.by = "node" /\ ~node.isCoreNode_

\* C5: for a node that is not a core node, copyColLower fills position k of
\* the caller's array with the value of the input vector's entry whose
\* column has the node's stage and internal index start+k, and with the
\* core's dense stage value where there is no such entry; the same for the
\* four other accessors with their vectors and start offsets.
C5_NodeCopyOverrides ==
    ScenarioCopyDone =>
        LET t == node.stg_
            n == NumInStage(core, dest.kind, t)
        IN  /\ DOMAIN dest.d = Range0(n)
            /\ \A k \in Range0(n) :
                 LET ov == Overrides(dest.kind, t, StageStart(core, dest.kind, t) + k)
                 IN  IF ov # {} THEN ov = {dest.d[k]}
                     ELSE dest.d[k] = CoreDense(core, dest.kind)[t][k]

C5_Witness ==
    /\ ScenarioCopyDone
    /\ NonMonotone(args.cstag, args.ncol) /\ NonMonotone(args.rstag, args.nrow)
    /\ LET t == node.stg_
           o == StageStart(core, dest.kind, t)
       IN  /\ \E k \in DOMAIN dest.d : Overrides(dest.kind, t, o + k) # {}
           /\ \E k \in DOMAIN dest.d : Overrides(dest.kind, t, o + k) = {}
           /\ \E j \in 1..Len(InputOf(dest.kind).v) :
                 StageOf(dest.kind)[InputOf(dest.kind).v[j].ind] # t

\* C6: a copy accessor called on the core node of stage t hands back
\* exactly what the core's own accessor for stage t hands back, and the
\* combine rule is not run for it.
C6_CoreNodeRoundTrip ==
    (pc = "built" /\ dest.by = "node" /\ node = core.nodes_[node.stg_])
        => /\ dest.d = CoreCopy(core, dest.kind, node.stg_)
           /\ ~dest.processed

C6_Witness ==
    /\ pc = "built" /\ dest.by = "node" /\ node = core.nodes_[node.stg_]
    /\ Len(NodeBlock(node, dest.kind)) >= 2
    /\ node.stg_ > 0

InputEmpty(kind, t) ==
    \A j \in 1..Len(InputOf(kind).v) : StageOf(kind)[InputOf(kind).v[j].ind] # t

EmptyDeltaCopied == ScenarioCopyDone /\ InputEmpty(dest.kind, node.stg_)

CoreArrayCopied ==
    dest.d = [k \in Range0(NumInStage(core, dest.kind, node.stg_)) |->
                 CoreDense(core, dest.kind)[node.stg_][k]]

\* C7: a copy accessor called on a node that is not a core node and whose
\* input vector is absent or has no entry in the node's stage fills the
\* caller's array with the core's dense stage array, and the call leaves
\* every dense array of the core as it was.
C7_EmptyDeltaCopiesCore ==
    [][(dest.by = "none" /\ EmptyDeltaCopied')
          => /\ CoreArrayCopied'
             /\ \A kind \in Kinds : CoreDense(core, kind)' = CoreDense(core, kind)]_vars

C7_Witness ==
    /\ ScenarioCopyDone /\ InputEmpty(dest.kind, node.stg_)
    /\ ~InputOf(dest.kind).null
    /\ Len(InputOf(dest.kind).v) >= 1
    /\ Cardinality(DOMAIN dest.d) >= 1

C7_WitnessAbsent ==
    /\ ScenarioCopyDone
    /\ InputOf(dest.kind).null
    /\ Cardinality(DOMAIN dest.d) >= 2

----------------------------------------------------------------------------
(* Properties of the row operations *)

\* C8: the row combine keeps the node's value at every column of the node's
\* row, the core's value at every column only the core row has, and
\* returns each column of the union once and no other column.
C8_RowCombineOverwrites ==
    (pc = "built" /\ dest.by = "row")
        => /\ \A i \in Indices(dest.nr) :
                 SelectInd(dest.out, i) = <<Entry(i, ValueAt(dest.nr, i))>>
           /\ \A i \in Indices(dest.cr) \ Indices(dest.nr) :
                 SelectInd(dest.out, i) = <<Entry(i, ValueAt(dest.cr, i))>>
           /\ Indices(dest.out) = Indices(dest.cr) \cup Indices(dest.nr)

\* The example: two columns in stages 0 and 1, one row in stage 1 with
\* 2.0 on column 1, a scenario row with 3.0 on column 1
C8_Witness ==
    /\ pc = "built" /\ dest.by = "row"
    /\ args.ncol = 2 /\ args.nstag = 2 /\ args.nrow = 1
    /\ args.cstag = [c \in {0, 1} |-> c] /\ args.rstag = [r \in {0} |-> 1]
    /\ dest.cr = <<Entry(1, 2)>>
    /\ SelectInd(dest.nr, 1) = <<Entry(1, 3)>>
    /\ SelectInd(dest.out, 1) = <<Entry(1, 3)>>

C8_WitnessUnion ==
    /\ pc = "built" /\ dest.by = "row"
    /\ Indices(dest.cr) \ Indices(dest.nr) # {}
    /\ Indices(dest.nr) \ Indices(dest.cr) # {}

\* C9: a getDenseRow(i) call that directly follows a getDenseRow(i) call on
\* the same node returns the same buffer with the same content and
\* allocates nothing.
C9_DenseRowRepeat ==
    (pc = "built" /\ dest.by = "dense" /\ prev.by = "dense" /\ prev.row = dest.row)
        => /\ dest.dv = prev.dv
           /\ dest.ptr = prev.ptr
           /\ dest.nalloc = prev.nalloc

C9_Witness ==
    /\ pc = "built" /\ dest.by = "dense" /\ prev.by = "dense" /\ prev.row = dest.row
    /\ dest.nalloc >= 2
    /\ \E k \in DOMAIN dest.dv : dest.dv[k] # 0
    /\ \E k \in DOMAIN dest.dv : dest.dv[k] = 0

----------------------------------------------------------------------------
(* Failure of the construction *)

\* C10: a construction given a stage label outside [0,nstages) does not
\* produce a CoreModel (it reports an invalid argument instead).
C10_BadLabelRejected == ~LabelsInRange(args) => pc # "built"


----------------------------------------------------------------------------
(* Properties of the content of a node *)

\* A node straight after its construction
NodeBuilt == dest = NoDest /\ pc = "built" /\ node # NoNode /\ LabelsInRange(args)

\* The positions of the node's input vector of a kind whose owner has
\* stage s
StagePositions(kind, s) ==
    {j \in 1..Len(InputOf(kind).v) : StageOf(kind)[InputOf(kind).v[j].ind] = s}

\* C12: each of the five bound/objective segments of a node of stage s
\* holds exactly the entries of its input vector whose owner has stage s,
\* once each and in input order, the value unchanged and the index
\* replaced by the internal index; a null input vector gives an empty
\* segment.
C12_SegmentsAreStageSubsets ==
    NodeBuilt =>
        \A kind \in Kinds :
           LET v   == InputOf(kind).v
               seg == NodeBlock(node, kind)
               P   == StagePositions(kind, node.stg_)
           IN  /\ Len(seg) = Cardinality(P)
               /\ \A j \in P :
                     seg[Cardinality({i \in P : i <= j})]
                        = Entry(Ex2InOf(kind)[v[j].ind], v[j].el)
               /\ InputOf(kind).null => seg = <<>>

C12_Witness ==
    /\ NodeBuilt
    /\ NonMonotone(args.cstag, args.ncol) /\ NonMonotone(args.rstag, args.nrow)
    /\ \E kind \in Kinds : InputOf(kind).null
    /\ \E kind \in ColKinds :
          LET v == InputOf(kind).v
              P == StagePositions(kind, node.stg_)
          IN  /\ Cardinality(P) >= 2
              /\ Cardinality(P) < Len(v)
              /\ \E j \in P : Ex2InOf(kind)[v[j].ind] # v[j].ind

\* C13: the stored entries of every matrix row of a node are in strictly
\* ascending order of internal column index.
C13_RowsAscending ==
    NodeBuilt =>
        \A i \in Range0(node.nrow_) :
           LET row == RowOf(node, node.rowbeg_ + i)
           IN  \A j \in 1..(Len(row) - 1) : row[j].ind < row[j + 1].ind

\* The core's input vector of a kind
CoreInputOf(kind) ==
    CASE kind = "clo" -> args.dclo [] kind = "cup" -> args.dcup
      [] kind = "obj" -> args.dobj [] kind = "rlo" -> args.drlo
      [] kind = "rup" -> args.drup

RECURSIVE SumTo(_, _)
SumTo(f, n) == IF n = 0 THEN 0 ELSE f[n - 1] + SumTo(f, n - 1)

\* The number of entries of the matrix segment of a node
MatrixSegmentSize(n) == IF n.has_matrix_ THEN n.strt_[n.nrow_] ELSE 0

\* C14: over the core nodes of all stages every entry of each input vector
\* is in the matching segment of the node of its owner's stage and of no
\* other node, every matrix row is with all its nonzeros in the node of its
\* stage, and the segment sizes of the nodes add up to the input sizes.
C14_CoreNodesPartitionInput ==
    Built =>
        /\ \A kind \in Kinds :
              LET v == CoreInputOf(kind).v
              IN  /\ \A j \in 1..Len(v), t \in Range0(core.nstag_) :
                        SelectInd(NodeBlock(core.nodes_[t], kind),
                                  Ex2InOf(kind)[v[j].ind])
                           = IF StageOf(kind)[v[j].ind] = t
                             THEN <<Entry(Ex2InOf(kind)[v[j].ind], v[j].el)>>
                             ELSE <<>>
                  /\ SumTo([t \in Range0(core.nstag_) |->
                              Len(NodeBlock(core.nodes_[t], kind))], core.nstag_)
                        = Len(v)
        /\ \A r \in Range0(core.nrow_) :
              LET src == args.matrix.v[r]
                  row == RowOf(core.nodes_[core.rowStage_[r]], core.rowEx2In_[r])
              IN  /\ Len(row) = Len(src)
                  /\ \A j \in 1..Len(src) :
                        SelectInd(row, core.colEx2In_[src[j].ind])
                           = <<Entry(core.colEx2In_[src[j].ind], src[j].el)>>
        /\ SumTo([t \in Range0(core.nstag_) |-> MatrixSegmentSize(core.nodes_[t])],
                 core.nstag_) = NumElements(args.matrix.v)

C14_Witness ==
    /\ Built
    /\ core.nstag_ >= 2
    /\ NonMonotone(args.cstag, args.ncol) /\ NonMonotone(args.rstag, args.nrow)
    /\ \A t \in Range0(core.nstag_) : Len(ColLowerOf(core.nodes_[t])) >= 1
    /\ \E r \in Range0(core.nrow_) : Len(args.matrix.v[r]) >= 2

In2ExOf(kind) == IF kind \in ColKinds THEN core.colIn2Ex_ ELSE core.rowIn2Ex_

\* C15: after the construction copyColLower(dest, t) writes getNumCols(t)
\* positions, position k being the source problem's column lower bound of
\* the column whose internal index is the stage's start plus k; the same
\* for the four other accessors with their vectors, counts and maps.
C15_CoreCopyIsSourceData ==
    (Built /\ dest.by = "core") =>
        LET t == dest.stg
            n == NumInStage(core, dest.kind, t)
        IN  /\ DOMAIN dest.d = Range0(n)
            /\ \A k \in Range0(n) :
                  dest.d[k] = ValueAt(CoreInputOf(dest.kind).v,
                                      In2ExOf(dest.kind)[StageStart(core, dest.kind, t) + k])

C15_Witness ==
    /\ Built /\ dest.by = "core"
    /\ dest.stg > 0
    /\ StageStart(core, dest.kind, dest.stg) > 0
    /\ NumInStage(core, dest.kind, dest.stg) >= 2
    /\ NonMonotone(args.cstag, args.ncol)

\* C17: the matrix segment of a node of stage s built from a matrix that
\* has entries holds the rows of stage s in internal row order, each with
\* all the nonzeros of its source row under internal column indices, and
\* nothing of the rows of other stages.
C17_MatrixSegmentIsStageRows ==
    (NodeBuilt /\ ~nargs.matrix.null /\ NumElements(nargs.matrix.v) > 0) =>
        LET s      == node.stg_
            m      == nargs.matrix.v
            Ext(i) == core.rowIn2Ex_[core.stageRowPtr_[s] + i]
        IN  /\ node.has_matrix_
            /\ \A i \in Range0(core.nRowInStage_[s]) :
                  LET row == RowOf(node, core.stageRowPtr_[s] + i)
                      src == m[Ext(i)]
                  IN  /\ core.rowStage_[Ext(i)] = s
                      /\ Len(row) = Len(src)
                      /\ \A c \in Range0(core.ncol_) :
                            SelectInd(row, core.colEx2In_[c])
                               = [j \in 1..Len(SelectInd(src, c)) |->
                                     Entry(core.colEx2In_[c], SelectInd(src, c)[j].el)]
            /\ MatrixSegmentSize(node)
                  = Cardinality({<<r, j>> \in Range0(core.nrow_) \X (1..core.ncol_) :
                                    core.rowStage_[r] = s /\ j <= Len(m[r])})

C17_Witness ==
    /\ NodeBuilt /\ ~nargs.matrix.null /\ ~node.isCoreNode_
    /\ NonMonotone(args.cstag, args.ncol) /\ NonMonotone(args.rstag, args.nrow)
    /\ \E i \in Range0(node.nrow_) : Len(RowOf(node, node.rowbeg_ + i)) >= 2
    /\ \E r \in Range0(core.nrow_) :
          core.rowStage_[r] # node.stg_ /\ Len(nargs.matrix.v[r]) >= 1

----------------------------------------------------------------------------
(* The dense row under writes into the returned buffer *)

\* C18: whatever getDenseRow calls and writes into returned buffers came
\* before, getDenseRow(i) returns an array as long as the core has
\* columns, with the row's coefficient at every internal column index of
\* row i and 0 elsewhere, and every index of the row is inside the array.
C18_DenseRowCanonical ==
    (pc = "built" /\ dest.by = "dense") =>
        LET row == RowOf(node, dest.row)
        IN  /\ DOMAIN dest.dv = Range0(core.ncol_)
            /\ \A j \in 1..Len(row) : row[j].ind \in Range0(core.ncol_)
            /\ \A k \in Range0(core.ncol_) :
                  dest.dv[k] = IF k \in Indices(row) THEN ValueAt(row, k) ELSE 0
            /\ dRowMap[dest.row].dv = dest.dv

C18_Witness ==
    /\ pc = "built" /\ dest.by = "dense"
    /\ prev.by = "written" /\ prev.row = dest.row
    /\ dest.nalloc >= 2
    /\ \E j \in DOMAIN dRowMap : j # dest.row /\ dRowMap[j].dv[0] = Scribble
    /\ \E k \in DOMAIN dest.dv : dest.dv[k] = 0
    /\ \E k \in DOMAIN dest.dv : dest.dv[k] # 0

----------------------------------------------------------------------------
(* Release of the buffers *)

\* Every allocated buffer is released once, at its base, and nothing else
\* is released
ReleasedOnce(allocated, released) ==
    /\ \A b \in allocated :
          Cardinality({j \in 1..Len(released) : released[j].buf = b}) = 1
    /\ \A j \in 1..Len(released) :
          released[j].buf \in allocated /\ released[j].off = 0

\* C16: destroying a core releases each buffer its construction allocated
\* exactly once: the count and start arrays, the stage-label arrays, the
\* four index maps, the dense arrays of every stage at their allocation
\* base, the integer-index and binary-index copies and every core node.
C16_CoreReleasedOnce ==
    (pc = "destroyed" /\ dest.by = "destroy")
        => ReleasedOnce(dest.allocated, dest.released)

\* C20: a node's constructor copies no more entries than the buffer was
\* allocated for, records segment offsets that do not decrease and end at
\* the number of copied entries, and leaves a buffer that the destructor
\* releases once, also when nothing was copied from inputs that had
\* entries.
C20_BufferWithinCapacityAndValid ==
    /\ NodeBuilt =>
          LET last == node.rup_strt_ + 1
          IN  /\ Len(node.dels_) <= node.nels_
              /\ Len(node.inds_) = Len(node.dels_)
              /\ \A k \in 0..(last - 1) : node.strt_[k] <= node.strt_[k + 1]
              /\ node.strt_[last] = Len(node.dels_)
    /\ (pc = "built" /\ dest.by = "destroyNode")
          => ReleasedOnce(dest.allocated, dest.released)

----------------------------------------------------------------------------
(* Properties of the quadratic objective *)

QuadDone == pc = "built" /\ LabelsInRange(args) /\ dest.by = "quad"

\* The entries of external column j of the quadratic data of the call
QEntries(j) ==
    [l \in 1..(dest.q.starts[j + 1] - dest.q.starts[j]) |->
        Entry(dest.q.indx[dest.q.starts[j] + l - 1],
              dest.q.els[dest.q.starts[j] + l - 1])]

\* Every term couples two columns of one stage
BlockDiagonal ==
    \A j \in Range0(core.ncol_) :
       \A l \in 1..Len(QEntries(j)) :
          core.colStage_[QEntries(j)[l].ind] = core.colStage_[j]

\* C11: when addQuadraticObjectiveToCore fails on a term that couples two
\* stages, the core is left without quadratic data: its flag is false and
\* no stage node reports or holds quadratic data.
C11_FailedQuadraticLeavesNone ==
    (QuadDone /\ dest.thrown) =>
        /\ ~core.hasQdata_
        /\ \A t \in Range0(core.nstag_) :
              /\ ~core.nodes_[t].hasQdata_
              /\ core.nodes_[t].nqdata_.state # "live"

-----------------------------------------------------------------------------
\* Properties of the per-stage integer column lists

\* The slot of the i-th integer index in the list of its stage: the number
\* of earlier integer indices of the same stage, plus one
IntSlot(i) ==
    1 + Cardinality({j \in Range0(i) :
            core.colStage_[core.integerIndices_[j]] =
                core.colStage_[core.integerIndices_[i]]})

\* C21: for every integer column c given to the construction, the position
\* recorded for it in the integer column list of stage colStage[c] is
\* colExternalToInternal(c) - stageColStart(colStage[c]) and lies in
\* [0, getNumCols(colStage[c])), for any stage labelling, grouped or not
C21_IntegerPositionInStage ==
    (pc = "built" /\ LabelsInRange(args)) =>
        \A i \in Range0(core.integerLength_) :
            LET c   == core.integerIndices_[i]
                t   == core.colStage_[c]
                pos == core.intColsStagewise[t][IntSlot(i)]
            IN  /\ pos = core.colEx2In_[c] - core.stageColPtr_[t]
                /\ pos \in Range0(core.nColInStage_[t])


-----------------------------------------------------------------------------
\* Properties of the scenario iterator of the investment example

\* the call of getNextScenario counted by frame.calls has returned
CallReturned == frame.at \in {"returned", "loop", "done"} /\ frame.calls >= 1

\* a step in which a call of getNextScenario returns NULL
NullCall == frame'.calls = frame.calls + 1 /\ frame'.ret = "NULL"

\* C22: after getCoreScenario() the successive getNextScenario calls return
\* a path exactly getNmbScen() = nmbNodes - firstLeaf times, the k-th of them
\* reporting scenario index k-1, probability 1/getNmbScen() and parent
\* scenario max(scen-1,0); every later call returns NULL and changes neither
\* the tree object nor the reported values
C22_ScenariosInCallOrder ==
    /\ [](CallReturned =>
            /\ frame.ret # "NULL" <=> frame.calls <= scTree.nmbNodes - scTree.firstLeaf
            /\ frame.ret # "NULL" =>
                  /\ frame.out.scen = frame.calls - 1
                  /\ frame.out.parentScen = Max(frame.out.scen - 1, 0)
                  /\ frame.out.scenProb =
                        [num |-> 1, den |-> scTree.nmbNodes - scTree.firstLeaf])
    /\ [][NullCall => scTree' = scTree /\ frame'.out = frame.out]_vars

\* the loop of main has added the scenarios of a tree of four or more, and
\* two more calls after the one that ended it have returned NULL
C22_Witness ==
    /\ frame.at = "done"
    /\ frame.ret = "NULL"
    /\ frame.nullCalls >= 3
    /\ frame.generated = scTree.nmbNodes - scTree.firstLeaf
    /\ frame.generated >= 4
    /\ frame.out.scen = frame.generated - 1

\* C23: after every non-NULL getNextScenario call the array returned is the
\* path from the root to the new leaf (entry 0 is the root 0, entry t-1 is
\* the parent (n-1)/2 of entry t), branchStage is at least 1, the entries at
\* the stages below branchStage are as the call found them and, for a
\* scenario index above 0, branchStage is the first stage at which the path
\* differs from the one the call found; the assertion inside the loop of
\* getNextScenario never fails
C23_PathOfNewLeaf ==
    /\ frame.at # "assert_failed"
    /\ frame.at = "returned" =>
          LET a == scTree.scenNodeNmb
              T == scTree.nmbStages
              b == frame.out.branchStage
          IN  /\ a[0] = 0
              /\ a[T - 1] = scTree.firstLeaf + frame.out.scen
              /\ \A t \in 1..(T - 1) :
                    a[t] >= 1 /\ a[t - 1] = (a[t] - 1) \div 2
              /\ b >= 1
              /\ \A t \in Range0(T) : t < b => a[t] = frame.atEntry[t]
              /\ frame.out.scen > 0 => b < T /\ a[b] # frame.atEntry[b]

\* a scenario that leaves the path of the one before it at stage 2 of a
\* tree of four or more stages
C23_Witness ==
    /\ frame.at = "returned"
    /\ scTree.nmbStages >= 4
    /\ frame.out.scen > 0
    /\ frame.out.branchStage = 2
    /\ scTree.scenNodeNmb[1] = frame.atEntry[1]
    /\ scTree.scenNodeNmb[2] # frame.atEntry[2]
============================================================================
